---------------------------- MODULE Spec2Model ----------------------------
(***************************************************************************)
(* Quarto rules engine (src/src/quarto.rs): the attribute/piece model, the *)
(* board text codec (BoardState <-> String) and the Quarto game object     *)
(* with pick_piece / move_piece / is_quarto.                               *)
(*                                                                         *)
(* Texts are sequences of one-character strings.  Option<T> is modelled as *)
(* a sequence of length 0 (None) or 1 (Some(v)); Result<T, E> as a record  *)
(* with an ok flag.  Arrays keep the source's 0-based indices.             *)
(***************************************************************************)
EXTENDS Integers, Sequences, FiniteSets, TLC

VARIABLES
    quarto,     \* Option<Quarto>: what the constructor call yielded (.ok()),
                \* then mutated in place by pick_piece / move_piece
    call,       \* the last call made on the object, its arguments and result
    npicks,     \* number of successful pick_piece calls so far (bounded)
    db          \* the rows of table `game` (main.rs), in insertion order

vars == <<quarto, call, npicks, db>>

--------------------------------------------------------------------------
(* Option and Result *)

None == <<>>
Some(v) == <<v>>
Unwrap(o) == o[1]

Ok(v) == [ok |-> TRUE, val |-> v]
Err(e) == [ok |-> FALSE, err |-> e]

InvalidPieceError == "InvalidPieceError"

--------------------------------------------------------------------------
(* Attribute model *)

Color == {"Brown", "White"}
Height == {"Short", "Tall"}
Shape == {"Circle", "Square"}
Top == {"Flat", "Hole"}

\* strum's EnumIter yields the variants in declaration order
ColorIter == <<"Brown", "White">>
HeightIter == <<"Short", "Tall">>
ShapeIter == <<"Circle", "Square">>
TopIter == <<"Flat", "Hole">>

ColorToString(c) == IF c = "Brown" THEN "B" ELSE "W"
HeightToString(h) == IF h = "Short" THEN "S" ELSE "T"
ShapeToString(s) == IF s = "Circle" THEN "C" ELSE "S"
TopToString(t) == IF t = "Flat" THEN "F" ELSE "H"

ColorTryFrom(c) ==
    IF c = "B" THEN Ok("Brown")
    ELSE IF c = "W" THEN Ok("White")
    ELSE Err(InvalidPieceError)

HeightTryFrom(c) ==
    IF c = "S" THEN Ok("Short")
    ELSE IF c = "T" THEN Ok("Tall")
    ELSE Err(InvalidPieceError)

ShapeTryFrom(c) ==
    IF c = "C" THEN Ok("Circle")
    ELSE IF c = "S" THEN Ok("Square")
    ELSE Err(InvalidPieceError)

TopTryFrom(c) ==
    IF c = "F" THEN Ok("Flat")
    ELSE IF c = "H" THEN Ok("Hole")
    ELSE Err(InvalidPieceError)

Piece == [color : Color, height : Height, shape : Shape, top : Top]

MkPiece(c, h, s, t) == [color |-> c, height |-> h, shape |-> s, top |-> t]

\* PieceToString with the attributes in the loop order of all_pieces()
\* (color, shape, top, height) instead of the text order
PieceToString_LoopOrder(p) ==
    << ColorToString(p.color), ShapeToString(p.shape),
       TopToString(p.top), HeightToString(p.height) >>

\* String::from(Piece): the four codes in the order color, height, shape, top
PieceToString(p) ==
    << ColorToString(p.color), HeightToString(p.height),
       ShapeToString(p.shape), TopToString(p.top) >>

\* Piece::try_from(String); `?` returns the first attribute error
PieceTryFrom(text) ==
    IF Len(text) # 4 THEN Err(InvalidPieceError)
    ELSE LET color == ColorTryFrom(text[1])
             height == HeightTryFrom(text[2])
             shape == ShapeTryFrom(text[3])
             top == TopTryFrom(text[4])
         IN  IF ~color.ok THEN color
             ELSE IF ~height.ok THEN height
             ELSE IF ~shape.ok THEN shape
             ELSE IF ~top.ok THEN top
             ELSE Ok(MkPiece(color.val, height.val, shape.val, top.val))

\* Result::ok()
ResultOk(r) == IF r.ok THEN Some(r.val) ELSE None

--------------------------------------------------------------------------
(* Board state and its text codec *)

N == 4
Idx == 0 .. (N - 1)

\* [[None; 4]; 4]
EmptyBoard == [x \in Idx |-> [y \in Idx |-> None]]

\* a line holds four 4-character cells and three 1-character spacers
LineLen == 3 * (4 + 1) + 4

\* &s[from..to] with 0-based byte offsets, `to` exclusive
Slice(s, from, to) == SubSeq(s, from + 1, to)

\* str::lines(): split at "\n", a final line ending is optional, and a
\* trailing "\r" of a line is part of its line ending
RECURSIVE SplitNewline(_, _, _)
SplitNewline(s, i, cur) ==
    IF i > Len(s) THEN <<cur>>
    ELSE IF s[i] = "\n" THEN <<cur>> \o SplitNewline(s, i + 1, <<>>)
    ELSE SplitNewline(s, i + 1, Append(cur, s[i]))

StripCR(l) ==
    IF Len(l) > 0 /\ l[Len(l)] = "\r" THEN SubSeq(l, 1, Len(l) - 1) ELSE l

Lines(s) ==
    LET parts == SplitNewline(s, 1, <<>>)
        kept == IF parts[Len(parts)] = <<>>
                THEN SubSeq(parts, 1, Len(parts) - 1)
                ELSE parts
        \* only the final line keeps a bare "\r" when no "\n" follows it
        strip(k) == IF k < Len(parts) THEN StripCR(parts[k]) ELSE parts[k]
    IN  [k \in 1 .. Len(kept) |-> strip(k)]

\* CellStep without the piece_count lookup: a repeated piece is accepted
CellStep_NoDuplicateCheck(st, line, x, y) ==
    LET piece_text == Slice(line, 5 * y, 5 * y + 4)
        cell == ResultOk(PieceTryFrom(piece_text))
        bs == [st.bs EXCEPT ![x][y] = cell]
        spacer == Slice(line, 5 * y + 4, 5 * y + 5)
    IN  IF y # 3 /\ spacer # <<" ">>
        THEN [st EXCEPT !.bs = bs, !.failed = TRUE]
        ELSE [st EXCEPT !.bs = bs]

\* CellStep without the test of the spacer after the cell
CellStep_NoSpacerCheck(st, line, x, y) ==
    LET piece_text == Slice(line, 5 * y, 5 * y + 4)
        cell == ResultOk(PieceTryFrom(piece_text))
        bs == [st.bs EXCEPT ![x][y] = cell]
        dup == cell # None /\ Unwrap(cell) \in st.piece_count
        count == IF cell # None THEN st.piece_count \cup {Unwrap(cell)}
                 ELSE st.piece_count
    IN  IF dup THEN [st EXCEPT !.bs = bs, !.failed = TRUE]
        ELSE [st EXCEPT !.bs = bs, !.piece_count = count]

\* The body of the two nested loops of BoardState::try_from for cell (x, y)
\* of `line`, given the board and the pieces seen so far.
CellStep(st, line, x, y) ==
    LET piece_text == Slice(line, 5 * y, 5 * y + 4)
        cell == ResultOk(PieceTryFrom(piece_text))
        bs == [st.bs EXCEPT ![x][y] = cell]
        dup == cell # None /\ Unwrap(cell) \in st.piece_count
        count == IF cell # None THEN st.piece_count \cup {Unwrap(cell)}
                 ELSE st.piece_count
        spacer == Slice(line, 5 * y + 4, 5 * y + 5)
    IN  IF dup THEN [st EXCEPT !.bs = bs, !.failed = TRUE]
        ELSE IF y # 3 /\ spacer # <<" ">>
             THEN [st EXCEPT !.bs = bs, !.piece_count = count, !.failed = TRUE]
        ELSE [st EXCEPT !.bs = bs, !.piece_count = count]

RECURSIVE LineLoop(_, _, _, _)
LineLoop(st, line, x, y) ==
    IF st.failed \/ y >= 4 THEN st
    ELSE LineLoop(CellStep(st, line, x, y), line, x, y + 1)

RECURSIVE LinesLoop(_, _, _)
LinesLoop(st, lines, x) ==
    IF st.failed \/ x >= Len(lines) THEN st
    ELSE IF Len(lines[x + 1]) # LineLen THEN [st EXCEPT !.failed = TRUE]
    ELSE LinesLoop(LineLoop(st, lines[x + 1], x, 0), lines, x + 1)

\* BoardState::try_from(&String)
BoardStateTryFrom(text) ==
    LET lines == Lines(text)
    IN  IF Len(lines) # 4 THEN Err(InvalidPieceError)
        ELSE LET st == LinesLoop([bs |-> EmptyBoard, piece_count |-> {},
                                  failed |-> FALSE], lines, 0)
             IN  IF st.failed THEN Err(InvalidPieceError) ELSE Ok(st.bs)

RECURSIVE Join(_, _)
Join(parts, sep) ==
    IF Len(parts) = 0 THEN <<>>
    ELSE IF Len(parts) = 1 THEN parts[1]
    ELSE parts[1] \o sep \o Join(Tail(parts), sep)

CellToString(c) ==
    IF c = None THEN <<" ", " ", " ", " ">> ELSE PieceToString(Unwrap(c))

RowToString(r) == Join([k \in 1 .. N |-> CellToString(r[k - 1])], <<" ">>)

\* String::from(BoardState)
BoardStateToString(bs) ==
    Join([k \in 1 .. N |-> RowToString(bs[k - 1])], <<"\n">>)

--------------------------------------------------------------------------
(* The Quarto object *)

\* all_pieces with the innermost loop's value taken from the Top loop's
\* position: 16 entries, only 8 distinct pieces
all_pieces_HeightFromTop ==
    [k \in 1 .. 16 |->
        MkPiece(ColorIter[((k - 1) \div 8) + 1],
                HeightIter[(((k - 1) \div 2) % 2) + 1],
                ShapeIter[(((k - 1) \div 4) % 2) + 1],
                TopIter[(((k - 1) \div 2) % 2) + 1])]

\* all_pieces(): nested loops over Color, Shape, Top, Height in that order
all_pieces ==
    [k \in 1 .. 16 |->
        MkPiece(ColorIter[((k - 1) \div 8) + 1],
                HeightIter[((k - 1) % 2) + 1],
                ShapeIter[(((k - 1) \div 4) % 2) + 1],
                TopIter[(((k - 1) \div 2) % 2) + 1])]

\* Vec::contains
Contains(v, p) == \E k \in 1 .. Len(v) : v[k] = p

\* Vec::retain(|pc| *pc != *p)
Retain(v, p) == SelectSeq(v, LAMBDA pc : pc # p)

\* Quarto::free_pieces(&bs): the loop over the rows and cells of the board,
\* cell number k = 4 * row + column
RECURSIVE FreeLoop(_, _, _)
FreeLoop(pieces, bs, k) ==
    IF k >= N * N THEN pieces
    ELSE LET cell == bs[k \div N][k % N]
         IN  FreeLoop(IF cell # None THEN Retain(pieces, Unwrap(cell))
                      ELSE pieces, bs, k + 1)

free_pieces(bs) == FreeLoop(all_pieces, bs, 0)

\* Quarto::new()
QuartoNew ==
    [board_state |-> EmptyBoard, free_pieces |-> all_pieces, next_piece |-> None]

\* Quarto::try_from without the recomputation of free_pieces (line 272)
QuartoTryFrom_FullPool(text) ==
    LET bs == BoardStateTryFrom(text)
    IN  IF ~bs.ok THEN bs
        ELSE Ok([QuartoNew EXCEPT !.board_state = bs.val])

\* Quarto::try_from(&String)
QuartoTryFrom(text) ==
    LET bs == BoardStateTryFrom(text)
    IN  IF ~bs.ok THEN bs
        ELSE Ok([QuartoNew EXCEPT !.free_pieces = free_pieces(bs.val),
                                  !.board_state = bs.val])

\* pick_piece without the membership test: every pick succeeds
pick_piece_Unchecked(q, p) ==
    [q |-> [q EXCEPT !.free_pieces = Retain(q.free_pieces, p),
                     !.next_piece = Some(p)],
     ret |-> TRUE]

\* pick_piece that leaves the picked piece in the free pool
pick_piece_NoRetain(q, p) ==
    IF Contains(q.free_pieces, p)
    THEN [q |-> [q EXCEPT !.next_piece = Some(p)], ret |-> TRUE]
    ELSE [q |-> q, ret |-> FALSE]

\* Quarto::pick_piece(&mut self, p): the object afterwards and the result
pick_piece(q, p) ==
    IF Contains(q.free_pieces, p)
    THEN [q |-> [q EXCEPT !.free_pieces = Retain(q.free_pieces, p),
                          !.next_piece = Some(p)],
          ret |-> TRUE]
    ELSE [q |-> q, ret |-> FALSE]

\* move_piece without the test that the cell is empty
move_piece_Overwrite(q, x, y) ==
    IF x >= 4 \/ y >= 4
    THEN [q |-> q, ret |-> FALSE, panic |-> FALSE]
    ELSE IF q.next_piece # None
    THEN LET p == Unwrap(q.next_piece)
         IN  IF Contains(q.free_pieces, p)
             THEN [q |-> q, ret |-> FALSE, panic |-> TRUE]
             ELSE [q |-> [q EXCEPT !.board_state[x][y] = Some(p),
                                   !.next_piece = None],
                   ret |-> TRUE, panic |-> FALSE]
    ELSE [q |-> q, ret |-> FALSE, panic |-> FALSE]

\* move_piece that does not clear next_piece after writing the cell
move_piece_KeepPending(q, x, y) ==
    IF x >= 4 \/ y >= 4
    THEN [q |-> q, ret |-> FALSE, panic |-> FALSE]
    ELSE IF q.board_state[x][y] = None
    THEN IF q.next_piece # None
         THEN LET p == Unwrap(q.next_piece)
              IN  IF Contains(q.free_pieces, p)
                  THEN [q |-> q, ret |-> FALSE, panic |-> TRUE]
                  ELSE [q |-> [q EXCEPT !.board_state[x][y] = Some(p)],
                        ret |-> TRUE, panic |-> FALSE]
         ELSE [q |-> q, ret |-> FALSE, panic |-> FALSE]
    ELSE [q |-> q, ret |-> FALSE, panic |-> FALSE]

\* move_piece that takes the pending piece before it looks at the cell, and
\* so loses it when the cell is occupied
move_piece_TakeFirst(q, x, y) ==
    IF x >= 4 \/ y >= 4
    THEN [q |-> q, ret |-> FALSE, panic |-> FALSE]
    ELSE IF q.next_piece # None
    THEN LET p == Unwrap(q.next_piece)
         IN  IF q.board_state[x][y] = None
             THEN IF Contains(q.free_pieces, p)
                  THEN [q |-> q, ret |-> FALSE, panic |-> TRUE]
                  ELSE [q |-> [q EXCEPT !.board_state[x][y] = Some(p),
                                        !.next_piece = None],
                        ret |-> TRUE, panic |-> FALSE]
             ELSE [q |-> [q EXCEPT !.next_piece = None],
                   ret |-> FALSE, panic |-> FALSE]
    ELSE [q |-> q, ret |-> FALSE, panic |-> FALSE]

\* move_piece that writes the piece with the two indices exchanged
move_piece_Transposed(q, x, y) ==
    IF x >= 4 \/ y >= 4
    THEN [q |-> q, ret |-> FALSE, panic |-> FALSE]
    ELSE IF q.board_state[x][y] = None
    THEN IF q.next_piece # None
         THEN LET p == Unwrap(q.next_piece)
              IN  IF Contains(q.free_pieces, p)
                  THEN [q |-> q, ret |-> FALSE, panic |-> TRUE]
                  ELSE [q |-> [q EXCEPT !.board_state[y][x] = Some(p),
                                        !.next_piece = None],
                        ret |-> TRUE, panic |-> FALSE]
         ELSE [q |-> q, ret |-> FALSE, panic |-> FALSE]
    ELSE [q |-> q, ret |-> FALSE, panic |-> FALSE]

\* Quarto::move_piece(&mut self, x, y): the object afterwards, the result,
\* and whether the assertion of line 344 failed (the call panics)
move_piece(q, x, y) ==
    IF x >= 4 \/ y >= 4
    THEN [q |-> q, ret |-> FALSE, panic |-> FALSE]
    ELSE IF q.board_state[x][y] = None
    THEN IF q.next_piece # None
         THEN LET p == Unwrap(q.next_piece)
              IN  IF Contains(q.free_pieces, p)
                  THEN [q |-> q, ret |-> FALSE, panic |-> TRUE]
                  ELSE [q |-> [q EXCEPT !.board_state[x][y] = Some(p),
                                        !.next_piece = None],
                        ret |-> TRUE, panic |-> FALSE]
         ELSE [q |-> q, ret |-> FALSE, panic |-> FALSE]
    ELSE [q |-> q, ret |-> FALSE, panic |-> FALSE]

\* Quarto::count_elements(&self, coords, prop): whether a cell of the line
\* is empty, and how often each Option<attribute value> occurs on the line.
\* `prop` names the attribute the closure reads.
count_elements(q, coords, prop) ==
    LET picked == [i \in 1 .. 4 |-> q.board_state[coords[i][1]][coords[i][2]]]
        picked_property ==
            [i \in 1 .. 4 |->
                IF picked[i] = None THEN None ELSE Some(Unwrap(picked[i])[prop])]
        keys == {picked_property[i] : i \in 1 .. 4}
    IN  [found_none |-> \E i \in 1 .. 4 : picked_property[i] = None,
         hmap |-> [v \in keys |->
                      Cardinality({i \in 1 .. 4 : picked_property[i] = v})]]

\* check_quarto that looks only at the counts
check_quarto_IgnoreNone(ls) ==
    4 \in {ls.hmap[v] : v \in DOMAIN ls.hmap}

\* Quarto::check_quarto(ls)
check_quarto(ls) ==
    /\ ~ls.found_none
    /\ 4 \in {ls.hmap[v] : v \in DOMAIN ls.hmap}

\* Quarto::parse_quarto(&self, coords_vec)
parse_quarto(q, coords_vec) ==
    [k \in 1 .. Len(coords_vec) |->
        [coords |-> coords_vec[k],
         color |-> count_elements(q, coords_vec[k], "color"),
         height |-> count_elements(q, coords_vec[k], "height"),
         shape |-> count_elements(q, coords_vec[k], "shape"),
         top |-> count_elements(q, coords_vec[k], "top")]]

\* the filter closure of Quarto::summarize
IsQuartoLine(e) ==
    \/ check_quarto(e.color)
    \/ check_quarto(e.height)
    \/ check_quarto(e.shape)
    \/ check_quarto(e.top)

\* Quarto::summarize(vv): the coordinates of the lines that pass the filter
summarize(vv) ==
    LET kept == SelectSeq(vv, IsQuartoLine)
    IN  [k \in 1 .. Len(kept) |-> kept[k].coords]

\* the ten coordinate lists of Quarto::is_quarto
QuartoLines ==
    << << <<0, 0>>, <<0, 1>>, <<0, 2>>, <<0, 3>> >>,
       << <<1, 0>>, <<1, 1>>, <<1, 2>>, <<1, 3>> >>,
       << <<2, 0>>, <<2, 1>>, <<2, 2>>, <<2, 3>> >>,
       << <<3, 0>>, <<3, 1>>, <<3, 2>>, <<3, 3>> >>,
       << <<0, 0>>, <<1, 0>>, <<2, 0>>, <<3, 0>> >>,
       << <<0, 1>>, <<1, 1>>, <<2, 1>>, <<3, 1>> >>,
       << <<0, 2>>, <<1, 2>>, <<2, 2>>, <<3, 2>> >>,
       << <<0, 3>>, <<1, 3>>, <<2, 3>>, <<3, 3>> >>,
       << <<0, 0>>, <<1, 1>>, <<2, 2>>, <<3, 3>> >>,
       << <<3, 0>>, <<2, 1>>, <<1, 2>>, <<0, 3>> >> >>

\* Quarto::is_quarto(&self)
is_quarto(q) == Len(summarize(parse_quarto(q, QuartoLines))) > 0

--------------------------------------------------------------------------
(* Board texts fed to the constructor: the texts of the source's tests and *)
(* one-step variations of them.                                            *)

RowBS ==
    << "B", "S", "C", "F", " ", "B", "S", "C", "H", " ", "B", "S", "S", "F", " ", "B", "S", "S", "H" >>

RowBT ==
    << "B", "T", "C", "F", " ", "B", "T", "C", "H", " ", "B", "T", "S", "F", " ", "B", "T", "S", "H" >>

RowWS ==
    << "W", "S", "C", "F", " ", "W", "S", "C", "H", " ", "W", "S", "S", "F", " ", "W", "S", "S", "H" >>

RowWT ==
    << "W", "T", "C", "F", " ", "W", "T", "C", "H", " ", "W", "T", "S", "F", " ", "W", "T", "S", "H" >>

RowWTDup ==
    << "W", "T", "C", "F", " ", "W", "T", "C", "H", " ", "W", "T", "S", "F", " ", "B", "S", "C", "F" >>

RowBlank ==
    << " ", " ", " ", " ", " ", " ", " ", " ", " ", " ", " ", " ", " ", " ", " ", " ", " ", " ", " " >>

RowNoQuarto ==
    << "B", "S", "C", "F", " ", "B", "S", "C", "H", " ", "B", "S", "S", "F", " ", "W", "T", "S", "H" >>

RowQuarto ==
    << "B", "S", "C", "F", " ", "B", "S", "C", "H", " ", "B", "S", "S", "F", " ", "B", "T", "S", "H" >>

RowThree ==
    << "B", "S", "C", "H", " ", "B", "S", "S", "F", " ", "B", "T", "C", "F", " ", " ", " ", " ", " " >>

\* a board text: four lines joined by newlines
MkText(l0, l1, l2, l3) == Join(<<l0, l1, l2, l3>>, <<"\n">>)

TextAllPieces == MkText(RowBS, RowBT, RowWS, RowWT)
TextDuplicate == MkText(RowBS, RowBT, RowWS, RowWTDup)
TextEmpty == MkText(RowBlank, RowBlank, RowBlank, RowBlank)
TextNoQuarto == MkText(RowNoQuarto, RowBlank, RowBlank, RowBlank)
TextQuarto == MkText(RowQuarto, RowBlank, RowBlank, RowBlank)
TextThree == MkText(RowThree, RowBlank, RowBlank, RowBlank)

BaseTexts ==
    {TextAllPieces, TextDuplicate, TextEmpty, TextNoQuarto, TextQuarto, TextThree}

\* piece codes of the texts of test_is_quarto
SegBSCF == <<"B", "S", "C", "F">>
SegBSCH == <<"B", "S", "C", "H">>
SegBSSF == <<"B", "S", "S", "F">>
SegBTSH == <<"B", "T", "S", "H">>
SegBTCF == <<"B", "T", "C", "F">>

\* 4-character cell segments written into a text
Segments ==
    { <<" ", " ", " ", " ">>, <<"X", "X", "X", "X">>, <<"B", "S", "C", " ">>,
      <<"b", "s", "c", "f">>, <<"B", "S", "C", "F">>, <<"W", "T", "S", "H">> }

\* the cells and spacers that are varied
VarCells == {<<0, 0>>, <<0, 3>>, <<3, 3>>}
VarSpacers == {<<0, 0>>, <<1, 1>>, <<3, 2>>}

\* 1-based position in a well-formed text of the first character of cell (x, y)
CellPos(x, y) == x * (LineLen + 1) + 5 * y + 1

SetCell(t, x, y, seg) ==
    [k \in 1 .. Len(t) |->
        IF k >= CellPos(x, y) /\ k < CellPos(x, y) + 4
        THEN seg[k - CellPos(x, y) + 1] ELSE t[k]]

SetChar(t, pos, ch) == [k \in 1 .. Len(t) |-> IF k = pos THEN ch ELSE t[k]]

\* every "\n" of the text preceded by "\r"
RECURSIVE WithCRLF(_)
WithCRLF(t) ==
    IF t = <<>> THEN <<>>
    ELSE (IF Head(t) = "\n" THEN <<"\r", "\n">> ELSE <<Head(t)>>)
         \o WithCRLF(Tail(t))

Variations(t) ==
    {t}
    \cup {SetCell(t, c[1], c[2], seg) : c \in VarCells, seg \in Segments}
    \cup {SetChar(t, CellPos(c[1], c[2]) + 4, ch) : c \in VarSpacers, ch \in {"-", "X"}}
    \cup { t \o <<"\n">>,                    \* a final line ending
           t \o <<"\n", "\n">>,              \* a fifth, empty line
           <<"\n">> \o t,                    \* a leading empty line
           WithCRLF(t),                      \* CRLF line endings
           SubSeq(t, 1, 3 * (LineLen + 1) - 1),  \* three lines
           SubSeq(t, 1, Len(t) - 1),         \* last line one character short
           t \o <<" ">>,                     \* last line one character long
           <<>> }                            \* the empty text

\* the empty text with four segments written into four cells
Put4(c1, s1, c2, s2, c3, s3, c4, s4) ==
    SetCell(SetCell(SetCell(SetCell(TextEmpty, c1[1], c1[2], s1),
                            c2[1], c2[2], s2), c3[1], c3[2], s3),
            c4[1], c4[2], s4)

\* dummy_texts of test_is_quarto: the brown row in each of the four rows,
\* the two diagonals, and the brown column in each of the four columns
QuartoTexts ==
    {MkText(RowQuarto, RowBlank, RowBlank, RowBlank),
     MkText(RowBlank, RowQuarto, RowBlank, RowBlank),
     MkText(RowBlank, RowBlank, RowQuarto, RowBlank),
     MkText(RowBlank, RowBlank, RowBlank, RowQuarto),
     Put4(<<0, 0>>, SegBSCF, <<1, 1>>, SegBSCH, <<2, 2>>, SegBSSF, <<3, 3>>, SegBTSH),
     Put4(<<0, 3>>, SegBTSH, <<1, 2>>, SegBSSF, <<2, 1>>, SegBSCH, <<3, 0>>, SegBTCF)}
    \cup {Put4(<<0, y>>, SegBSCF, <<1, y>>, SegBSCH, <<2, y>>, SegBSSF, <<3, y>>, SegBTSH) :
            y \in Idx}

Texts == UNION {Variations(t) : t \in BaseTexts} \cup QuartoTexts

--------------------------------------------------------------------------
(* The state machine *)

\* bound on the number of successful picks in one behaviour
MaxPicks == 2

BSCF == MkPiece("Brown", "Short", "Circle", "Flat")
BTSH == MkPiece("Brown", "Tall", "Square", "Hole")
WTSH == MkPiece("White", "Tall", "Square", "Hole")

\* the pieces callers pick, and the coordinates they place at: the first
\* and the last row and one row past the board, every column and one past
PickSet == {BSCF, BTSH, WTSH}
PlaceXs == {0, N - 1, N}
PlaceYs == 0 .. N

\* the object exists (construction succeeded)
Constructed == quarto # None

\* the object pick_piece / move_piece act on
Q == Unwrap(quarto)

\* a failed assertion ends the process
Panicked == call.op = "move_piece" /\ call.panic

InitNew ==
    /\ quarto = Some(QuartoNew)
    /\ call = [op |-> "new"]
    /\ npicks = 0
    /\ db = <<>>

InitTryFrom ==
    \E t \in Texts :
        LET r == QuartoTryFrom(t)
        IN  /\ quarto = ResultOk(r)
            /\ call = [op |-> "try_from", text |-> t, ok |-> r.ok]
            /\ npicks = 0
            /\ db = <<>>

Init == InitNew \/ InitTryFrom

PickPiece(p) ==
    /\ Constructed
    /\ ~Panicked
    /\ LET r == pick_piece(Q, p)
       IN  /\ r.ret => npicks < MaxPicks
           /\ quarto' = Some(r.q)
           /\ call' = [op |-> "pick_piece", p |-> p, ret |-> r.ret]
           /\ npicks' = IF r.ret THEN npicks + 1 ELSE npicks
           /\ UNCHANGED db

MovePiece(x, y) ==
    /\ Constructed
    /\ ~Panicked
    /\ LET r == move_piece(Q, x, y)
       IN  /\ quarto' = Some(r.q)
           /\ call' = [op |-> "move_piece", x |-> x, y |-> y, ret |-> r.ret,
                       panic |-> r.panic]
           /\ UNCHANGED <<npicks, db>>

IsQuarto ==
    /\ Constructed
    /\ ~Panicked
    /\ call' = [op |-> "is_quarto", ret |-> is_quarto(Q)]
    /\ UNCHANGED <<quarto, npicks, db>>

\* the uuid main gives a new game (Uuid::new_v4), and the uuids looked up
NewUuid == "uuid-1"
Uuids == {"uuid-1", "uuid-2"}

\* Quarto::insert_new_game(&mut self, db, uuid, piece), as main calls it on
\* a fresh game: pick the piece, and when that succeeded insert the row
InsertNewGame(piece) ==
    /\ Constructed
    /\ call.op = "new"
    /\ LET r == pick_piece(Q, piece)
       IN  /\ r.ret => npicks < MaxPicks
           /\ quarto' = Some(r.q)
           /\ npicks' = IF r.ret THEN npicks + 1 ELSE npicks
           /\ db' = IF r.ret
                    THEN Append(db, [uuid |-> NewUuid,
                                     next_piece |-> PieceToString(Unwrap(r.q.next_piece)),
                                     board_state |-> BoardStateToString(r.q.board_state)])
                    ELSE db
           /\ call' = [op |-> "insert_new_game", p |-> piece, ret |-> r.ret]

\* Quarto::search_game_by_uuid(db, uuid): the rows fetched (and printed),
\* and the Option<Quarto> returned
search_game_by_uuid(rows, uuid) ==
    [rows |-> SelectSeq(rows, LAMBDA row : row.uuid = uuid), found |-> None]

SearchGame(uuid) ==
    /\ ~Panicked
    /\ LET r == search_game_by_uuid(db, uuid)
       IN  call' = [op |-> "search_game_by_uuid", uuid |-> uuid,
                    rows |-> r.rows, found |-> r.found]
    /\ UNCHANGED <<quarto, npicks, db>>

Next ==
    \/ \E p \in PickSet : PickPiece(p)
    \/ \E x \in PlaceXs, y \in PlaceYs : MovePiece(x, y)
    \/ IsQuarto
    \/ \E p \in PickSet : InsertNewGame(p)
    \/ \E u \in Uuids : SearchGame(u)

Spec == Init /\ [][Next]_vars

--------------------------------------------------------------------------
(* The earlier variant, quatro.rs: struct Board {board, available_pieces}.
   Its Piece, attribute and all_pieces code is that of quarto.rs. Under
   SpecQuatro the variable `quarto` holds the Option<Board> under test. *)

\* Board::new()
Board_new == [board |-> EmptyBoard, available_pieces |-> all_pieces]

\* Board::move_piece(&mut self, p, x, y) -> bool
Board_move_piece(b, p, x, y) ==
    IF x >= 4 \/ y >= 4 THEN [b |-> b, ret |-> FALSE]
    ELSE IF b.board[x][y] = None
         THEN [b |-> [board |-> [b.board EXCEPT ![x][y] = Some(p)],
                      available_pieces |-> Retain(b.available_pieces, p)],
               ret |-> TRUE]
         ELSE [b |-> b, ret |-> FALSE]

\* The body of the two nested loops of Board::parse_board_text for cell
\* (x, y) of `line`
Board_CellStep(st, line, x, y) ==
    LET piece_text == Slice(line, 5 * y, 5 * y + 4)
        piece == PieceTryFrom(piece_text)
        moved == Board_move_piece(st.game, piece.val, x, y)
        spacer == Slice(line, 5 * y + 4, 5 * y + 5)
        spaced(g) == IF y # 3 /\ spacer # <<" ">>
                     THEN [game |-> g, failed |-> TRUE]
                     ELSE [game |-> g, failed |-> FALSE]
    IN  IF piece_text = <<" ", " ", " ", " ">>
        THEN spaced([st.game EXCEPT !.board[x][y] = None])
        ELSE IF ~piece.ok THEN [st EXCEPT !.failed = TRUE]
        ELSE IF ~moved.ret THEN [st EXCEPT !.failed = TRUE]
        ELSE spaced(moved.b)

RECURSIVE Board_LineLoop(_, _, _, _)
Board_LineLoop(st, line, x, y) ==
    IF st.failed \/ y >= 4 THEN st
    ELSE Board_LineLoop(Board_CellStep(st, line, x, y), line, x, y + 1)

RECURSIVE Board_LinesLoop(_, _, _)
Board_LinesLoop(st, lines, x) ==
    IF st.failed \/ x >= Len(lines) THEN st
    ELSE IF Len(lines[x + 1]) # LineLen THEN [st EXCEPT !.failed = TRUE]
    ELSE Board_LinesLoop(Board_LineLoop(st, lines[x + 1], x, 0), lines, x + 1)

\* Board::parse_board_text(&String) -> Option<Board>
parse_board_text(text) ==
    LET lines == Lines(text)
    IN  IF Len(lines) # 4 THEN None
        ELSE LET st == Board_LinesLoop([game |-> Board_new, failed |-> FALSE],
                                       lines, 0)
             IN  IF st.failed THEN None ELSE Some(st.game)

\* the texts of the tests, without their variations
QuatroTexts == BaseTexts \cup QuartoTexts

InitQuatro ==
    \E t \in QuatroTexts :
        /\ quarto = parse_board_text(t)
        /\ call = [op |-> "parse_board_text", text |-> t]
        /\ npicks = 0
        /\ db = <<>>

\* a call of Board::move_piece on the parsed board; npicks counts the
\* pieces placed so far
BoardMovePiece(p, x, y) ==
    /\ quarto # None
    /\ LET r == Board_move_piece(Unwrap(quarto), p, x, y)
       IN  /\ r.ret => npicks < MaxPicks
           /\ quarto' = Some(r.b)
           /\ call' = [op |-> "Board::move_piece", p |-> p, x |-> x, y |-> y,
                       ret |-> r.ret]
           /\ npicks' = IF r.ret THEN npicks + 1 ELSE npicks
           /\ UNCHANGED db

NextQuatro ==
    \E p \in PickSet, x \in PlaceXs, y \in PlaceYs : BoardMovePiece(p, x, y)

SpecQuatro == InitQuatro /\ [][NextQuatro]_vars

--------------------------------------------------------------------------
(* Properties *)

Cells == Idx \X Idx

BoardPieces(q) ==
    {Unwrap(q.board_state[c[1]][c[2]]) :
        c \in {d \in Cells : q.board_state[d[1]][d[2]] # None}}

FreeSet(q) == {q.free_pieces[k] : k \in 1 .. Len(q.free_pieces)}

PendingSet(q) == IF q.next_piece = None THEN {} ELSE {Unwrap(q.next_piece)}

Occupied(q) == {c \in Cells : q.board_state[c[1]][c[2]] # None}

\* C1: in every reachable game state the pieces on the board, the free pool
\* and the pending piece (if any) are pairwise disjoint and their union is
\* the whole 16-piece universe.
C1_Partition ==
    Constructed =>
        /\ BoardPieces(Q) \cap FreeSet(Q) = {}
        /\ BoardPieces(Q) \cap PendingSet(Q) = {}
        /\ FreeSet(Q) \cap PendingSet(Q) = {}
        /\ BoardPieces(Q) \cup FreeSet(Q) \cup PendingSet(Q) = Piece

\* C2: a pick made while a piece is pending fails, whatever the piece, and
\* leaves the pending piece, the free pool and the board unchanged.
C2_PickWhilePendingFails ==
    [][ (Constructed /\ Q.next_piece # None /\ call'.op = "pick_piece")
            => (call'.ret = FALSE /\ quarto' = quarto) ]_vars

\* C3: a pick of a piece that is not in the free pool fails and leaves the
\* board, the free pool and the pending piece unchanged.
C3_PickUsedFails ==
    [][ (Constructed /\ call'.op = "pick_piece"
            /\ ~Contains(Q.free_pieces, call'.p))
            => (call'.ret = FALSE /\ quarto' = quarto) ]_vars

\* the state after pick(P), pick(P): the second pick failed with P pending
C3_Witness ==
    /\ Constructed
    /\ call.op = "pick_piece"
    /\ call.ret = FALSE
    /\ Q.next_piece = Some(call.p)
    /\ ~Contains(Q.free_pieces, call.p)

\* pick(p) then place(x, y) from q: both succeed, the cell holds p, nothing
\* is pending, and a repeated pick(p) fails
PickThenPlace(q, p, x, y) ==
    LET a == pick_piece(q, p)
        b == move_piece(a.q, x, y)
    IN  /\ a.ret
        /\ b.ret
        /\ ~b.panic
        /\ b.q.board_state[x][y] = Some(p)
        /\ b.q.next_piece = None
        /\ ~pick_piece(b.q, p).ret

\* C4: with nothing pending, for every free piece P and every empty cell
\* (x, y), pick(P) then place(x, y) both succeed, the cell then holds P and
\* nothing is pending; and a piece that is on the board stays there and
\* cannot be picked, in this state and after every further step.
C4_PickThenPlace ==
    /\ [](Constructed /\ Q.next_piece = None =>
            \A p \in FreeSet(Q) : \A c \in Cells \ Occupied(Q) :
                PickThenPlace(Q, p, c[1], c[2]))
    /\ [](Constructed => \A p \in BoardPieces(Q) : ~pick_piece(Q, p).ret)
    /\ [][ Constructed => BoardPieces(Q) \subseteq BoardPieces(Q') ]_vars

\* the state after pick(P), place(x, y): the cell holds P, nothing is
\* pending, and P can no longer be picked
C4_Witness ==
    /\ Constructed
    /\ call.op = "move_piece"
    /\ call.ret
    /\ npicks >= 1
    /\ Q.next_piece = None
    /\ Q.board_state[call.x][call.y] # None
    /\ ~pick_piece(Q, Unwrap(Q.board_state[call.x][call.y])).ret

\* C5: place(x, y) succeeds exactly when x and y are both below 4, a piece
\* is pending and cell (x, y) is empty; so it fails whenever x = 4 or y = 4.
C5_PlaceSucceedsIff ==
    [][ (Constructed /\ call'.op = "move_piece")
            => (call'.ret <=>
                    (/\ call'.x < 4
                     /\ call'.y < 4
                     /\ Q.next_piece # None
                     /\ Q.board_state[call'.x][call'.y] = None)) ]_vars

\* the state after a place at x = 4 that failed although a piece was
\* pending and column y of the board had an empty cell
C5_Witness ==
    /\ Constructed
    /\ call.op = "move_piece"
    /\ call.x = 4
    /\ call.y < 4
    /\ ~call.ret
    /\ Q.next_piece # None
    /\ Q.board_state[0][call.y] = None

\* C6: a successful place(x, y) writes the pending piece into cell (x, y),
\* clears the pending piece and leaves the other 15 cells and the free pool
\* as they were.
C6_PlaceEffect ==
    [][ (Constructed /\ call'.op = "move_piece" /\ call'.ret)
            => (/\ Q.next_piece # None
                /\ Q'.board_state[call'.x][call'.y] = Q.next_piece
                /\ Q'.next_piece = None
                /\ Q'.free_pieces = Q.free_pieces
                /\ \A c \in Cells \ {<<call'.x, call'.y>>} :
                       Q'.board_state[c[1]][c[2]] = Q.board_state[c[1]][c[2]]) ]_vars

\* the state after a successful place on a board that already held pieces,
\* with pieces left in the free pool
C6_Witness ==
    /\ Constructed
    /\ call.op = "move_piece"
    /\ call.ret
    /\ Cardinality(Occupied(Q)) >= 2
    /\ Len(Q.free_pieces) > 0

\* C7: a failing place(x, y) leaves the whole game state unchanged: board,
\* free pool and pending piece.
C7_PlaceFailureNoChange ==
    [][ (Constructed /\ call'.op = "move_piece" /\ ~call'.ret)
            => quarto' = quarto ]_vars

\* the state after a place on an occupied cell: it failed and the piece is
\* still pending
C7_Witness ==
    /\ Constructed
    /\ call.op = "move_piece"
    /\ ~call.ret
    /\ call.x < 4
    /\ call.y < 4
    /\ Q.board_state[call.x][call.y] # None
    /\ Q.next_piece # None

\* C8: no piece is in more than one cell of a reachable board.
C8_NoDuplicateOnBoard ==
    Constructed =>
        \A c \in Occupied(Q) : \A d \in Occupied(Q) :
            c # d => Q.board_state[c[1]][c[2]] # Q.board_state[d[1]][d[2]]

\* a decoded board of four pieces onto which a fifth has been placed
C8_Witness ==
    /\ Constructed
    /\ call.op = "move_piece"
    /\ call.ret
    /\ Cardinality(Occupied(Q)) >= 5

\* C9: decoding the text encoded from a reachable board succeeds and gives
\* back the same board, cell for cell.
C9_RoundTrip ==
    Constructed =>
        BoardStateTryFrom(BoardStateToString(Q.board_state)) = Ok(Q.board_state)

\* a board reached by two successful place calls
C9_Witness ==
    /\ Constructed
    /\ call.op = "move_piece"
    /\ call.ret
    /\ npicks = 2
    /\ Cardinality(Occupied(Q)) >= 2
    /\ BoardStateTryFrom(BoardStateToString(Q.board_state)) = Ok(Q.board_state)

\* C10: the board text is normalized: encoding the board decoded from an
\* accepted text gives back exactly that text.
C10_TextNormalized ==
    (call.op = "try_from" /\ call.ok)
        => BoardStateToString(Q.board_state) = call.text

--------------------------------------------------------------------------
(* Properties of the decoder, stated on the text itself *)

\* the 4-character segment of cell (x, y) of a text, where the text has one
HasSegment(t, x, y) ==
    /\ x < Len(Lines(t))
    /\ Len(Lines(t)[x + 1]) >= 5 * y + 4

Segment(t, x, y) == SubSeq(Lines(t)[x + 1], 5 * y + 1, 5 * y + 4)

\* a piece code: one letter per attribute, in the order color, height,
\* shape, top
IsPieceCode(seg) ==
    /\ Len(seg) = 4
    /\ seg[1] \in {"B", "W"}
    /\ seg[2] \in {"S", "T"}
    /\ seg[3] \in {"C", "S"}
    /\ seg[4] \in {"F", "H"}

IsBlank(seg) == seg = <<" ", " ", " ", " ">>

\* four lines of 19 characters with a space at offsets 4, 9 and 14
WellFramed(t) ==
    /\ Len(Lines(t)) = 4
    /\ \A k \in 1 .. 4 :
        /\ Len(Lines(t)[k]) = 19
        /\ \A o \in {4, 9, 14} : Lines(t)[k][o + 1] = " "

\* the same piece code in two cells of the text
HasDuplicateCode(t) ==
    \E c \in Cells : \E d \in Cells :
        /\ c # d
        /\ HasSegment(t, c[1], c[2])
        /\ HasSegment(t, d[1], d[2])
        /\ IsPieceCode(Segment(t, c[1], c[2]))
        /\ Segment(t, c[1], c[2]) = Segment(t, d[1], d[2])

\* C11: decoding a text in which the same piece code is in two or more
\* cells fails and yields no board.
C11_DuplicateRejected ==
    (call.op = "try_from" /\ HasDuplicateCode(call.text))
        => (~call.ok /\ quarto = None)

\* a text that is well framed and holds one code twice in its first row was
\* decoded, and the decoding failed
C11_Witness ==
    /\ call.op = "try_from"
    /\ WellFramed(call.text)
    /\ IsPieceCode(Segment(call.text, 0, 0))
    /\ Segment(call.text, 0, 0) = Segment(call.text, 0, 3)
    /\ ~call.ok
    /\ quarto = None

\* C12: decoding fails for every text with a cell segment that is neither
\* four spaces nor a piece code, even when the text is well framed.
C12_InvalidSegmentRejected ==
    (/\ call.op = "try_from"
     /\ WellFramed(call.text)
     /\ \E c \in Cells :
            /\ ~IsBlank(Segment(call.text, c[1], c[2]))
            /\ ~IsPieceCode(Segment(call.text, c[1], c[2])))
        => ~call.ok

\* C13: decoding fails unless the text has exactly 4 lines (as str::lines
\* delimits them), each of 19 characters, with a space at offsets 4, 9, 14.
C13_FramingRequired ==
    (call.op = "try_from" /\ call.ok) => WellFramed(call.text)

\* a text of four lines of 19 characters with a spacer that is no space was
\* decoded, and the decoding failed
C13_Witness ==
    /\ call.op = "try_from"
    /\ Len(Lines(call.text)) = 4
    /\ \A k \in 1 .. 4 : Len(Lines(call.text)[k]) = 19
    /\ \E k \in 1 .. 4 : \E o \in {4, 9, 14} : Lines(call.text)[k][o + 1] # " "
    /\ ~HasDuplicateCode(call.text)
    /\ ~call.ok

--------------------------------------------------------------------------
(* Properties of construction *)

\* C14: the free pool of a game decoded from a text is the complement of
\* the pieces on the decoded board, so it has 16 minus the number of
\* occupied cells entries (0 for a full board, 16 for an empty one).
C14_FreePoolIsComplement ==
    (call.op = "try_from" /\ call.ok)
        => /\ FreeSet(Q) = Piece \ BoardPieces(Q)
           /\ Len(Q.free_pieces) = 16 - Cardinality(Occupied(Q))

\* a game decoded from a full board: its free pool is empty
C14_Witness ==
    /\ call.op = "try_from"
    /\ call.ok
    /\ Cardinality(Occupied(Q)) = 16
    /\ Len(Q.free_pieces) = 0

\* C16: a fresh game has 16 empty cells, no pending piece and a free pool
\* of 16 entries that are the 16 distinct pieces.
C16_FreshGame ==
    call.op = "new"
        => /\ \A c \in Cells : Q.board_state[c[1]][c[2]] = None
           /\ Q.next_piece = None
           /\ Len(Q.free_pieces) = 16
           /\ FreeSet(Q) = Piece
           /\ Cardinality(FreeSet(Q)) = 16

\* the state Quarto::new() yields
C16_Witness ==
    /\ call.op = "new"
    /\ Constructed
    /\ Occupied(Q) = {}
    /\ Len(Q.free_pieces) = 16

--------------------------------------------------------------------------
(* Properties of the win check *)

\* the 10 lines of the board, each a set of 4 cells: rows, columns, diagonals
WinLines ==
    {{<<x, y>> : y \in Idx} : x \in Idx}
    \cup {{<<x, y>> : x \in Idx} : y \in Idx}
    \cup { {<<i, i>> : i \in Idx}, {<<i, (N - 1) - i>> : i \in Idx} }

Attributes == {"color", "height", "shape", "top"}

\* all 4 cells of the line are occupied and the pieces agree on an attribute
LineQualifies(q, l) ==
    /\ \A c \in l : q.board_state[c[1]][c[2]] # None
    /\ \E a \in Attributes : \A c \in l : \A d \in l :
           Unwrap(q.board_state[c[1]][c[2]])[a] = Unwrap(q.board_state[d[1]][d[2]])[a]

\* C17: is_quarto returns true exactly when one of the 10 lines has all 4
\* cells occupied by pieces that agree on one of the 4 attributes; a line
\* with an empty cell never qualifies.
C17_IsQuartoIff ==
    (Constructed /\ call.op = "is_quarto")
        => /\ Cardinality(WinLines) = 10
           /\ call.ret <=> (\E l \in WinLines : LineQualifies(Q, l))

\* is_quarto returned true on a board whose only qualifying line is the
\* diagonal from (3, 0) to (0, 3)
C17_Witness ==
    /\ Constructed
    /\ call.op = "is_quarto"
    /\ call.ret
    /\ \A l \in WinLines :
           LineQualifies(Q, l) <=> l = {<<i, (N - 1) - i>> : i \in Idx}

\* the check of is_quarto on the lines that contain cell (x, y) only
QuartoThrough(q, x, y) ==
    LET through(l) == \E i \in 1 .. 4 : l[i] = <<x, y>>
    IN  Len(summarize(parse_quarto(q, SelectSeq(QuartoLines, through)))) > 0

\* C18 as stated: right after a successful place(x, y), is_quarto over all
\* 10 lines equals the check restricted to the lines through (x, y).
C18_RestrictedCheckSame ==
    (Constructed /\ call.op = "move_piece" /\ call.ret)
        => (is_quarto(Q) = QuartoThrough(Q, call.x, call.y))

\* C18 amended: right after a successful place(x, y) made in a state where
\* is_quarto was false, is_quarto over all 10 lines equals the check
\* restricted to the lines through (x, y).
C18_RestrictedCheckSameIfNoQuartoBefore ==
    [][ (Constructed /\ call'.op = "move_piece" /\ call'.ret /\ ~is_quarto(Q))
            => (is_quarto(Q') = QuartoThrough(Q', call'.x, call'.y)) ]_vars

\* the state after a placement that completed a line: the board is a quarto
\* and was none without the piece just placed
C18_Witness ==
    /\ Constructed
    /\ call.op = "move_piece"
    /\ call.ret
    /\ is_quarto(Q)
    /\ QuartoThrough(Q, call.x, call.y)
    /\ ~is_quarto([Q EXCEPT !.board_state[call.x][call.y] = None])

--------------------------------------------------------------------------
(* Properties of the reported outcomes *)

\* the precondition of place(x, y) that fails in q, if any
PlaceFailure(q, x, y) ==
    IF x \notin Idx \/ y \notin Idx THEN "OutOfRange"
    ELSE IF q.next_piece = None THEN "NoPendingPiece"
    ELSE IF q.board_state[x][y] # None THEN "CellOccupied"
    ELSE "none"

\* C19: a failing place reports which precondition failed: the value it
\* returned differs from the value a place failing on another precondition
\* returns in the same state.
C19_FailuresDistinguished ==
    (Constructed /\ call.op = "move_piece" /\ ~call.ret /\ ~call.panic)
        => \A x \in PlaceXs : \A y \in PlaceYs :
               PlaceFailure(Q, x, y) \notin {"none", PlaceFailure(Q, call.x, call.y)}
                   => move_piece(Q, x, y).ret # call.ret

--------------------------------------------------------------------------
(* Properties of reconstruction from the persisted record *)

\* C15: reconstructing a game from a stored board text and pending-piece
\* code yields a game whose pending piece is that piece and whose free pool
\* is the complement of the board's pieces without it; it fails when the
\* pending piece is on the decoded board.
C15_ReconstructWithPending ==
    (call.op = "search_game_by_uuid" /\ call.rows # <<>>)
        => LET row == call.rows[1]
               bs == BoardStateTryFrom(row.board_state)
               p == PieceTryFrom(row.next_piece)
               on_board == BoardPieces([board_state |-> bs.val])
           IN  (bs.ok /\ p.ok)
                   => IF p.val \in on_board
                      THEN call.found = None
                      ELSE /\ call.found # None
                           /\ Unwrap(call.found).board_state = bs.val
                           /\ Unwrap(call.found).next_piece = Some(p.val)
                           /\ FreeSet(Unwrap(call.found))
                                  = Piece \ (on_board \cup {p.val})

--------------------------------------------------------------------------
(* Properties of the earlier variant *)

\* the cells of board b that hold piece p
BoardCellsOf(b, p) == {c \in Cells : b.board[c[1]][c[2]] = Some(p)}

\* C20: in quatro.rs, parse_board_text returns None for a text that uses
\* one piece in more than one cell, and no board built by parse_board_text
\* and move_piece holds a piece in two cells.
C20_QuatroNoPieceTwice ==
    /\ (call.op = "parse_board_text" /\ HasDuplicateCode(call.text))
           => quarto = None
    /\ quarto # None
           => \A p \in Piece : Cardinality(BoardCellsOf(Unwrap(quarto), p)) <= 1

--------------------------------------------------------------------------
(* Properties of whole games *)

\* C21: the assertion in move_piece never fails: in every reachable state
\* no call has panicked, and the pending piece, when there is one, is not a
\* member of the free pool.
C21_AssertionNeverFails ==
    /\ ~Panicked
    /\ Constructed
           => (Q.next_piece # None
                   => ~Contains(Q.free_pieces, Unwrap(Q.next_piece)))

\* the assertion was evaluated and passed: a placement succeeded while
\* pieces were still free
C21_Witness ==
    /\ Constructed
    /\ call.op = "move_piece"
    /\ call.ret
    /\ ~call.panic
    /\ Q.free_pieces # <<>>

\* C22: board cells are write-once: no step changes or clears a cell that
\* holds a piece, the set of occupied cells only grows, and the free pool
\* only shrinks.
C22_WriteOnce ==
    [][ Constructed =>
            /\ \A c \in Occupied(Q) :
                   Q'.board_state[c[1]][c[2]] = Q.board_state[c[1]][c[2]]
            /\ Occupied(Q) \subseteq Occupied(Q')
            /\ FreeSet(Q') \subseteq FreeSet(Q) ]_vars

\* a placement onto an occupied cell was tried while a piece was pending,
\* and was refused
C22_Witness ==
    /\ Constructed
    /\ call.op = "move_piece"
    /\ ~call.ret
    /\ call.x < N
    /\ call.y < N
    /\ Q.board_state[call.x][call.y] # None
    /\ Q.next_piece # None

\* C23: once is_quarto is true it stays true after every further step, and
\* is_quarto is false in every state with fewer than 4 occupied cells.
\* (A step that leaves the object as it was leaves is_quarto as it was, so
\* only the steps that change the object are evaluated.)
C23_IsQuartoMonotone ==
    /\ [][ (Constructed /\ quarto' # quarto /\ is_quarto(Q))
               => is_quarto(Q') ]_vars
    /\ [](Constructed /\ Cardinality(Occupied(Q)) < 4 => ~is_quarto(Q))

\* a piece was placed off every qualifying line of a board that is a
\* quarto: the quarto was there before the placement and is still there
C23_Witness ==
    /\ Constructed
    /\ call.op = "move_piece"
    /\ call.ret
    /\ is_quarto(Q)
    /\ ~QuartoThrough(Q, call.x, call.y)

==========================================================================
